---- MODULE Spec2Model ----
(***************************************************************************)
(* Model of the Developer Activity Monitor: main.py drives                 *)
(* load_config/validate_config (src/config.py), check_for_changes and its  *)
(* stages (src/monitor.py) and notify_change (src/notifier.py).            *)
(*                                                                         *)
(* Python strings are sequences of one-character strings, None is the      *)
(* model value None, a parsed document is a sequence of nodes.             *)
(***************************************************************************)
EXTENDS Integers, Sequences, FiniteSets, TLC

VARIABLES
    pc,            \* position of the running invocation of main()
    run,           \* number of invocations of main() started so far
    page,          \* the document the monitored URL currently serves
    file,          \* content of the hash file (Absent when it does not exist)
    environ,       \* os.environ of the running invocation
    config,        \* main's local: the Config, or None
    html,          \* check_for_changes' local
    content,       \* extract_content's result
    current_hash,  \* check_for_changes' local
    previous_hash, \* check_for_changes' local
    result,        \* (has_changed, message) returned by check_for_changes, or None
    raised,        \* the exception that ended the invocation, or None
    exitCode,      \* exit status of the invocation, or None while it runs
    fetched,       \* outcome of this invocation's HTTP request ("none": no request)
    smtp,          \* outcome of this invocation's SMTP session ("none": no session)
    notified,      \* calls of notify_change in this invocation
    writes,        \* writes to the hash file in this invocation
    fileAtStart,   \* the hash file when this invocation started
    lastGood,      \* fingerprint computed by the latest evaluation that returned
    saved,         \* the latest save_hash call: the file before it, its argument
    docA,          \* normaliser study: a document
    docB,          \* normaliser study: a noise/layout variant of docA
    contentA,      \* extract_content(docA)
    contentB,      \* extract_content(docB)
    edits,         \* normaliser study: edits that made docB out of docA
    loaded,        \* store study: the latest load_previous_hash result
    lastRun        \* how the previous invocation of main() ended

vars == <<pc, run, page, file, environ, config, html, content, current_hash,
          previous_hash, result, raised, exitCode, fetched, smtp, notified, writes,
          fileAtStart, lastGood, saved, docA, docB, contentA, contentB,
          edits, loaded, lastRun>>

mainVars == <<pc, run, page, environ, config, html, content, current_hash,
              previous_hash, result, raised, exitCode, fetched, smtp,
              notified, writes, fileAtStart, lastGood, lastRun>>

studyVars == <<docA, docB, contentA, contentB, edits>>

\* Python's None where a string is expected, a missing file, an unset variable:
\* one-element sequences that no string (a sequence of characters) equals.
None == <<"None">>
Absent == <<"Absent">>
Unset == <<"Unset">>
NoError == "none"

(***************************************************************************)
(* Bounds of the model.                                                    *)
(***************************************************************************)
MaxRuns == 3        \* invocations of main() in one behaviour
DigestLen == 2      \* hex characters of a fingerprint (64 in the program)
MaxEdits == 2       \* noise/layout edits applied to a document

(***************************************************************************)
(* Strings.                                                                *)
(***************************************************************************)
Whitespace == {" ", "\n", "\t"}

RECURSIVE LStrip(_)
LStrip(s) ==
    IF s # <<>> /\ Head(s) \in Whitespace THEN LStrip(Tail(s)) ELSE s

RECURSIVE RStrip(_)
RStrip(s) ==
    IF s # <<>> /\ s[Len(s)] \in Whitespace
    THEN RStrip(SubSeq(s, 1, Len(s) - 1))
    ELSE s

\* str.strip()
Strip(s) == RStrip(LStrip(s))

\* str.startswith(prefix)
StartsWith(s, prefix) ==
    Len(s) >= Len(prefix) /\ SubSeq(s, 1, Len(prefix)) = prefix

\* prefix in s (substring test)
Contains(s, sub) ==
    \E i \in 1..(Len(s) - Len(sub) + 1) : SubSeq(s, i, i + Len(sub) - 1) = sub

Lower(c) ==
    CASE c = "A" -> "a" [] c = "D" -> "d" [] c = "T" -> "t" [] c = "R" -> "r"
      [] c = "C" -> "c" [] c = "K" -> "k" [] c = "I" -> "i" [] c = "N" -> "n"
      [] c = "G" -> "g" [] c = "L" -> "l" [] c = "Y" -> "y" [] c = "S" -> "s"
      [] OTHER -> c

LowerStr(s) == [i \in 1..Len(s) |-> Lower(s[i])]

RECURSIVE Join(_, _)
\* sep.join(parts)
Join(parts, sep) ==
    IF parts = <<>> THEN <<>>
    ELSE IF Len(parts) = 1 THEN parts[1]
    ELSE parts[1] \o sep \o Join(Tail(parts), sep)

RECURSIVE CollapseWhitespace(_)
\* re.sub(r"\s+", " ", s)
CollapseWhitespace(s) ==
    IF s = <<>> THEN <<>>
    ELSE IF Head(s) \in Whitespace
         THEN <<" ">> \o CollapseWhitespace(LStrip(s))
         ELSE <<Head(s)>> \o CollapseWhitespace(Tail(s))

(***************************************************************************)
(* Fingerprinter: compute_hash.  SHA-256 is replaced by a rolling digest   *)
(* over the same input (the UTF-8 characters of the content) rendered, as  *)
(* hexdigest() renders it, in DigestLen lowercase hex characters.          *)
(***************************************************************************)
HexChars == <<"0", "1", "2", "3", "4", "5", "6", "7",
              "8", "9", "a", "b", "c", "d", "e", "f">>

CharCode(c) ==
    CASE c = " " -> 1 [] c = "a" -> 2 [] c = "b" -> 3 [] c = "c" -> 4
      [] c = "x" -> 5 [] c = "y" -> 6 [] OTHER -> 9

RECURSIVE Pow16(_)
Pow16(n) == IF n = 0 THEN 1 ELSE 16 * Pow16(n - 1)

RECURSIVE Digest(_, _)
Digest(s, h) ==
    IF s = <<>> THEN h
    ELSE Digest(Tail(s), (h * 7 + CharCode(Head(s))) % Pow16(DigestLen))

HexDigest(n) ==
    [i \in 1..DigestLen |-> HexChars[((n \div Pow16(DigestLen - i)) % 16) + 1]]

compute_hash(s) == HexDigest(Digest(s, 11))

(***************************************************************************)
(* Baseline Store: load_previous_hash and save_hash on the hash file.      *)
(* The file system is the environment: a read may fail with an OSError,    *)
(* and save_hash may fail in mkdir, in open (before the file is            *)
(* truncated) or in write (after it was truncated, with any proper prefix  *)
(* of the data written).                                                   *)
(***************************************************************************)
ReadFaults == {"ok", "OSError"}

load_previous_hash_nostrip(f, fault) ==
    IF fault = "OSError" THEN None
    ELSE IF f = Absent THEN None
    ELSE f

load_previous_hash(f, fault) ==
    IF fault = "OSError" THEN None
    ELSE IF f = Absent THEN None
    ELSE Strip(f)

SaveFaults(hash_value) ==
    {[at |-> "ok", written |-> Len(hash_value)],
     [at |-> "mkdir", written |-> 0],
     [at |-> "open", written |-> 0]}
    \cup {[at |-> "write", written |-> k] : k \in 0..(Len(hash_value) - 1)}

save_hash_swallow(f, hash_value, fault) ==
    CASE fault.at = "ok" -> [file |-> hash_value, raised |-> NoError]
      [] fault.at \in {"mkdir", "open"} -> [file |-> f, raised |-> NoError]
      [] fault.at = "write" ->
            [file |-> SubSeq(hash_value, 1, fault.written), raised |-> NoError]

\* save_hash: the file afterwards and the exception raised (None: returned)
save_hash(f, hash_value, fault) ==
    CASE fault.at = "ok" -> [file |-> hash_value, raised |-> NoError]
      [] fault.at \in {"mkdir", "open"} -> [file |-> f, raised |-> "OSError"]
      [] fault.at = "write" ->
            [file |-> SubSeq(hash_value, 1, fault.written),
             raised |-> "OSError"]

(***************************************************************************)
(* Configuration: load_config and validate_config over os.environ.         *)
(***************************************************************************)
Digits == <<"0", "1", "2", "3", "4", "5", "6", "7", "8", "9">>

IsDigit(c) == \E d \in 1..10 : Digits[d] = c

DigitValue(c) == (CHOOSE d \in 1..10 : Digits[d] = c) - 1

RECURSIVE DecimalValue(_, _)
DecimalValue(s, acc) ==
    IF s = <<>> THEN acc
    ELSE DecimalValue(Tail(s), acc * 10 + DigitValue(Head(s)))

\* int(s): surrounding whitespace, an optional sign, decimal digits
ParseInt(s) ==
    LET t == Strip(s)
        signed == t # <<>> /\ Head(t) \in {"-", "+"}
        digits == IF signed THEN Tail(t) ELSE t
    IN  IF digits # <<>> /\ \A i \in 1..Len(digits) : IsDigit(digits[i])
        THEN [ok |-> TRUE,
              value |-> IF signed /\ Head(t) = "-"
                        THEN 0 - DecimalValue(digits, 0)
                        ELSE DecimalValue(digits, 0)]
        ELSE [ok |-> FALSE, value |-> 0]

\* os.getenv(var, default)
getenv(env, var, default) == IF env[var] = Unset THEN default ELSE env[var]

\* bool(os.getenv(var))
Truthy(env, var) == env[var] # Unset /\ env[var] # <<>>

RequiredVars == {"MONITOR_URL", "EMAIL_FROM", "EMAIL_TO", "EMAIL_PASSWORD"}

DefaultSmtpHost == <<"g">>
DefaultSmtpPort == <<"4", "6", "5">>
DefaultHashPath == <<"h">>

NoConfig ==
    [monitor_url |-> None, email_from |-> None, email_to |-> None,
     email_password |-> None, check_selector |-> None,
     email_smtp_host |-> None, email_smtp_port |-> 0,
     hash_storage_path |-> None]

load_config(env) ==
    IF \E v \in RequiredVars : ~Truthy(env, v)
    THEN [raised |-> "ConfigError", config |-> NoConfig]
    ELSE LET sel == Strip(getenv(env, "CHECK_SELECTOR", <<>>))
             port == ParseInt(getenv(env, "EMAIL_SMTP_PORT", DefaultSmtpPort))
         IN  IF ~port.ok
             THEN [raised |-> "ConfigError", config |-> NoConfig]
             ELSE [raised |-> NoError,
                   config |->
                     [monitor_url |-> getenv(env, "MONITOR_URL", <<>>),
                      email_from |-> getenv(env, "EMAIL_FROM", <<>>),
                      email_to |-> getenv(env, "EMAIL_TO", <<>>),
                      email_password |-> getenv(env, "EMAIL_PASSWORD", <<>>),
                      check_selector |-> IF sel = <<>> THEN None ELSE sel,
                      email_smtp_host |->
                          getenv(env, "EMAIL_SMTP_HOST", DefaultSmtpHost),
                      email_smtp_port |-> port.value,
                      hash_storage_path |->
                          getenv(env, "HASH_STORAGE_PATH", DefaultHashPath)]]

HttpPrefix == <<"h", "t", "t", "p", ":", "/", "/">>
HttpsPrefix == <<"h", "t", "t", "p", "s", ":", "/", "/">>

\* validate_config: the exception it raises, or NoError
validate_config_lax(cfg) == NoError

validate_config(cfg) ==
    IF ~(StartsWith(cfg.monitor_url, HttpPrefix)
         \/ StartsWith(cfg.monitor_url, HttpsPrefix)) THEN "ConfigError"
    ELSE IF ~Contains(cfg.email_from, <<"@">>) THEN "ConfigError"
    ELSE IF ~Contains(cfg.email_to, <<"@">>) THEN "ConfigError"
    ELSE IF ~(1 <= cfg.email_smtp_port /\ cfg.email_smtp_port <= 65535)
         THEN "ConfigError"
    ELSE NoError

(***************************************************************************)
(* Normalizer: extract_content over the tree BeautifulSoup(html,           *)
(* "html.parser") builds.  A document is the sequence of its top-level     *)
(* nodes; a node is a text node (a NavigableString) or a tag with its      *)
(* name, id, class, the names of its other attributes, and its children.   *)
(* The parser never leaves two text nodes next to each other, nor an empty *)
(* text node.                                                              *)
(***************************************************************************)
Text(s) ==
    [kind |-> "text", text |-> s, name |-> "", id |-> <<>>, class |-> <<>>,
     attrs |-> {}, kids |-> <<>>]

Tag(name, id, class, attrs, kids) ==
    [kind |-> "tag", text |-> <<>>, name |-> name, id |-> id, class |-> class,
     attrs |-> attrs, kids |-> kids]

\* re.compile(r"ad|tracking|analytics", re.I).search(class)
ClassPattern(class) ==
    LET c == LowerStr(class)
    IN  \/ Contains(c, <<"a", "d">>)
        \/ Contains(c, <<"t", "r", "a", "c", "k", "i", "n", "g">>)
        \/ Contains(c, <<"a", "n", "a", "l", "y", "t", "i", "c", "s">>)

\* what each find_all of the removal pass matches
Matches(pass, node) ==
    /\ node.kind = "tag"
    /\ CASE pass = "tags" ->
                node.name \in {"script", "style", "noscript", "iframe"}
         [] pass = "class" -> ClassPattern(node.class)
         [] pass = "data-timestamp" -> "data-timestamp" \in node.attrs
         [] pass = "data-nonce" -> "data-nonce" \in node.attrs

RECURSIVE Decompose(_, _)
\* for tag in soup.find_all(...): tag.decompose()
\* The strings on either side of a removed tag stay separate nodes.
Decompose(nodes, pass) ==
    IF nodes = <<>> THEN <<>>
    ELSE LET n == Head(nodes)
         IN  IF Matches(pass, n) THEN Decompose(Tail(nodes), pass)
             ELSE IF n.kind = "tag"
                  THEN <<[n EXCEPT !.kids = Decompose(n.kids, pass)]>>
                       \o Decompose(Tail(nodes), pass)
                  ELSE <<n>> \o Decompose(Tail(nodes), pass)

RemovalPass(nodes) ==
    Decompose(Decompose(Decompose(Decompose(nodes, "tags"), "class"),
                        "data-timestamp"), "data-nonce")

RECURSIVE Strings(_)
\* the text nodes below `nodes`, in document order
Strings(nodes) ==
    IF nodes = <<>> THEN <<>>
    ELSE LET n == Head(nodes)
         IN  (IF n.kind = "text" THEN <<n.text>> ELSE Strings(n.kids))
             \o Strings(Tail(nodes))

RECURSIVE StripEach(_)
StripEach(strings) ==
    IF strings = <<>> THEN <<>>
    ELSE LET t == Strip(Head(strings))
         IN  (IF t = <<>> THEN <<>> ELSE <<t>>) \o StripEach(Tail(strings))

\* get_text(separator=" ", strip=True)
get_text(nodes) == Join(StripEach(Strings(nodes)), <<" ">>)

RECURSIVE Elements(_)
\* every tag below `nodes`, in document order
Elements(nodes) ==
    IF nodes = <<>> THEN <<>>
    ELSE LET n == Head(nodes)
         IN  (IF n.kind = "tag" THEN <<n>> \o Elements(n.kids) ELSE <<>>)
             \o Elements(Tail(nodes))

\* soup.select_one(selector) for an id selector "#name": the matches, in
\* document order (select_one takes the first)
Select(nodes, selector) ==
    SelectSeq(Elements(nodes),
              LAMBDA e : /\ selector # <<>>
                         /\ Head(selector) = "#"
                         /\ e.id = Tail(selector))

\* extract_content: the exception raised (or NoError) and the content
extract_content(doc, selector) ==
    LET soup == RemovalPass(doc)
        found == Select(soup, selector)
    IN  IF selector # None /\ found = <<>>
        THEN [raised |-> "MonitorError", content |-> <<>>]
        ELSE [raised |-> NoError,
              content |-> Strip(CollapseWhitespace(get_text(
                  IF selector # None THEN found[1].kids ELSE soup)))]

(***************************************************************************)
(* The environment of an invocation: os.environ, the document the URL      *)
(* serves, the outcome of the HTTP request and of the SMTP session.        *)
(***************************************************************************)
BaseEnv ==
    [MONITOR_URL |-> HttpsPrefix \o <<"x">>,
     EMAIL_FROM |-> <<"a", "@", "b">>,
     EMAIL_TO |-> <<"c", "@", "d">>,
     EMAIL_PASSWORD |-> <<"p">>,
     CHECK_SELECTOR |-> Unset,
     EMAIL_SMTP_HOST |-> Unset,
     EMAIL_SMTP_PORT |-> Unset,
     HASH_STORAGE_PATH |-> Unset]

Envs ==
    {BaseEnv,
     [BaseEnv EXCEPT !.CHECK_SELECTOR = <<"#", "c">>],
     [BaseEnv EXCEPT !.CHECK_SELECTOR = <<" ">>],
     [BaseEnv EXCEPT !.MONITOR_URL = Unset],
     [BaseEnv EXCEPT !.MONITOR_URL = <<"f", "t", "p", ":", "/", "/", "x">>],
     [BaseEnv EXCEPT !.EMAIL_FROM = <<>>],
     [BaseEnv EXCEPT !.EMAIL_FROM = <<"a", "b">>],
     [BaseEnv EXCEPT !.EMAIL_TO = <<"c", "d">>],
     [BaseEnv EXCEPT !.EMAIL_PASSWORD = Unset],
     [BaseEnv EXCEPT !.EMAIL_SMTP_PORT = <<" ", "2", "5">>],
     [BaseEnv EXCEPT !.EMAIL_SMTP_PORT = <<"x">>],
     [BaseEnv EXCEPT !.EMAIL_SMTP_PORT = <<"0">>],
     [BaseEnv EXCEPT !.EMAIL_SMTP_PORT = <<"7", "0", "0", "0", "0">>]}

Script(s) == Tag("script", <<>>, <<>>, {}, <<Text(s)>>)

Pages ==
    {<<Tag("div", <<"c">>, <<>>, {}, <<Text(<<"a", "b">>)>>)>>,
     <<Tag("div", <<"c">>, <<>>, {},
           <<Text(<<"a", "b">>), Script(<<"x">>)>>)>>,
     <<Tag("div", <<"c">>, <<>>, {}, <<Text(<<"a", " ", "c">>)>>),
       Tag("div", <<>>, <<"a", "d">>, {}, <<Text(<<"y">>)>>)>>,
     <<Tag("p", <<>>, <<>>, {}, <<Text(<<"b">>)>>)>>}

FetchOutcomes ==
    {"ok", "Timeout", "HTTPError", "ConnectionError", "RequestException"}

SmtpOutcomes ==
    {"ok", "SMTPAuthenticationError", "SMTPException", "Exception"}

fetch_page_content_swallow(served, outcome) ==
    IF outcome = "ok"
    THEN [raised |-> NoError, text |-> served]
    ELSE [raised |-> NoError, text |-> <<>>]

\* fetch_page_content: every requests exception becomes a MonitorError
fetch_page_content(served, outcome) ==
    IF outcome = "ok"
    THEN [raised |-> NoError, text |-> served]
    ELSE [raised |-> "MonitorError", text |-> <<>>]

\* send_email: True when the session succeeded, False on any exception
send_email(outcome) == outcome = "ok"

\* notify_change returns what send_email returns
notify_change(outcome) == send_email(outcome)

(***************************************************************************)
(* check_for_changes after the baseline was loaded: which branch is taken. *)
(***************************************************************************)
FirstRun == "First run - baseline hash saved"
Unchanged == "No changes detected"
Changed == "Change detected on monitored page"

NoResult == [has_changed |-> FALSE, message |-> "none"]

Decision_always_save(previous, current) ==
    IF previous = None
    THEN [save |-> TRUE, has_changed |-> FALSE, message |-> FirstRun]
    ELSE IF current = previous
    THEN [save |-> TRUE, has_changed |-> FALSE, message |-> Unchanged]
    ELSE [save |-> TRUE, has_changed |-> TRUE, message |-> Changed]

Decision_first_run_changed(previous, current) ==
    IF previous = None
    THEN [save |-> TRUE, has_changed |-> TRUE, message |-> Changed]
    ELSE IF current = previous
    THEN [save |-> FALSE, has_changed |-> FALSE, message |-> Unchanged]
    ELSE [save |-> TRUE, has_changed |-> TRUE, message |-> Changed]

Decision_no_save_on_change(previous, current) ==
    IF previous = None
    THEN [save |-> TRUE, has_changed |-> FALSE, message |-> FirstRun]
    ELSE IF current = previous
    THEN [save |-> FALSE, has_changed |-> FALSE, message |-> Unchanged]
    ELSE [save |-> FALSE, has_changed |-> TRUE, message |-> Changed]

Decision(previous, current) ==
    IF previous = None
    THEN [save |-> TRUE, has_changed |-> FALSE, message |-> FirstRun]
    ELSE IF current = previous
    THEN [save |-> FALSE, has_changed |-> FALSE, message |-> Unchanged]
    ELSE [save |-> TRUE, has_changed |-> TRUE, message |-> Changed]

(***************************************************************************)
(* The pipeline: one invocation of main() after another.                   *)
(***************************************************************************)
NoSave == [done |-> FALSE, old |-> Absent, new |-> None, fault |-> "ok",
           raised |-> NoError]
NoContent == [raised |-> "pending", content |-> <<>>]
\* before the first invocation there is no previous one
NoRun == [result |-> NoResult, content |-> None, current_hash |-> None,
          smtp |-> "none", exitCode |-> -1, file |-> Absent]
NoLoad == [done |-> FALSE, from |-> Absent, fault |-> "ok", value |-> None,
           after_save |-> None]

InitStudy ==
    /\ docA = <<>>
    /\ docB = <<>>
    /\ contentA = NoContent
    /\ contentB = NoContent
    /\ edits = 0
    /\ loaded = NoLoad

InitMain ==
    /\ pc = "idle"
    /\ run = 0
    /\ page \in Pages
    /\ environ = BaseEnv
    /\ config = NoConfig
    /\ html = <<>>
    /\ content = None
    /\ current_hash = None
    /\ previous_hash = None
    /\ result = NoResult
    /\ raised = NoError
    /\ exitCode = -1
    /\ fetched = "none"
    /\ smtp = "none"
    /\ notified = 0
    /\ writes = 0
    /\ fileAtStart = Absent
    /\ lastGood = None
    /\ lastRun = NoRun

Init ==
    /\ InitMain
    /\ InitStudy
    /\ file = Absent
    /\ saved = NoSave

\* the invocation ends: main returned `code`, or `exc` left it uncaught
\* (the interpreter then exits with status 1)
Exit(code, exc) ==
    /\ pc' = "exited"
    /\ exitCode' = code
    /\ raised' = exc

\* the monitored site publishes another document between two invocations
PageUpdate ==
    /\ pc \in {"idle", "exited"}
    /\ run < MaxRuns
    /\ \E p \in Pages \ {page} : page' = p
    /\ UNCHANGED <<pc, run, file, environ, config, html, content,
                   current_hash, previous_hash, result, raised, exitCode,
                   fetched, smtp, notified, writes, fileAtStart, lastGood,
                   saved>>
    /\ UNCHANGED <<studyVars, lastRun, loaded>>

\* sys.exit(main()) starts in a fresh process
Invoke ==
    /\ pc \in {"idle", "exited"}
    /\ run < MaxRuns
    /\ run' = run + 1
    /\ \E e \in Envs : environ' = e
    /\ pc' = "load_config"
    /\ config' = NoConfig
    /\ html' = <<>>
    /\ content' = None
    /\ current_hash' = None
    /\ previous_hash' = None
    /\ result' = NoResult
    /\ raised' = NoError
    /\ exitCode' = -1
    /\ fetched' = "none"
    /\ smtp' = "none"
    /\ notified' = 0
    /\ writes' = 0
    /\ fileAtStart' = file
    /\ saved' = NoSave
    /\ lastRun' = [result |-> result, content |-> content,
                   current_hash |-> current_hash, smtp |-> smtp,
                   exitCode |-> exitCode, file |-> file]
    /\ UNCHANGED <<page, file, lastGood, studyVars, loaded>>

\* main: load_config(); validate_config(config)
MainLoadConfig ==
    /\ pc = "load_config"
    /\ LET lc == load_config(environ)
           err == IF lc.raised # NoError THEN lc.raised
                  ELSE validate_config(lc.config)
       IN  IF err # NoError
           THEN /\ Exit(1, err)
                /\ UNCHANGED config
           ELSE /\ config' = lc.config
                /\ pc' = "fetch"
                /\ UNCHANGED <<exitCode, raised>>
    /\ UNCHANGED <<run, page, file, environ, html, content, current_hash,
                   previous_hash, result, fetched, smtp, notified, writes,
                   fileAtStart, lastGood, saved, studyVars, lastRun, loaded>>

\* check_for_changes: html = fetch_page_content(config.monitor_url)
FetchPage ==
    /\ pc = "fetch"
    /\ \E outcome \in FetchOutcomes :
         LET r == fetch_page_content(page, outcome)
         IN  /\ fetched' = outcome
             /\ IF r.raised # NoError
                THEN /\ Exit(1, r.raised)
                     /\ UNCHANGED html
                ELSE /\ html' = r.text
                     /\ pc' = "extract"
                     /\ UNCHANGED <<exitCode, raised>>
    /\ UNCHANGED <<run, page, file, environ, config, content, current_hash,
                   previous_hash, result, smtp, notified, writes,
                   fileAtStart, lastGood, saved, studyVars, lastRun, loaded>>

\* check_for_changes: content = extract_content(...); compute_hash(content)
ExtractAndHash ==
    /\ pc = "extract"
    /\ LET r == extract_content(html, config.check_selector)
       IN  IF r.raised # NoError
           THEN /\ Exit(1, r.raised)
                /\ UNCHANGED <<content, current_hash>>
           ELSE /\ content' = r.content
                /\ current_hash' = compute_hash(r.content)
                /\ pc' = "load"
                /\ UNCHANGED <<exitCode, raised>>
    /\ UNCHANGED <<run, page, file, environ, config, html, previous_hash,
                   result, fetched, smtp, notified, writes, fileAtStart,
                   lastGood, saved, studyVars, lastRun, loaded>>

\* check_for_changes: previous_hash = load_previous_hash(path)
LoadPrevious ==
    /\ pc = "load"
    /\ \E fault \in ReadFaults :
         previous_hash' = load_previous_hash(file, fault)
    /\ pc' = "compare"
    /\ UNCHANGED <<run, page, file, environ, config, html, content,
                   current_hash, result, raised, exitCode, fetched, smtp,
                   notified, writes, fileAtStart, lastGood, saved, studyVars, lastRun,
                   loaded>>

\* check_for_changes: the "No changes detected" return, without a save
ReturnUnchanged ==
    /\ pc = "compare"
    /\ LET d == Decision(previous_hash, current_hash)
       IN  /\ ~d.save
           /\ result' = [has_changed |-> d.has_changed, message |-> d.message]
    /\ lastGood' = current_hash
    /\ pc' = "checked"
    /\ UNCHANGED <<run, page, file, environ, config, html, content,
                   current_hash, previous_hash, raised, exitCode, fetched,
                   smtp, notified, writes, fileAtStart, saved, studyVars, lastRun,
                   loaded>>

\* check_for_changes: save_hash(path, current_hash), then the return; an
\* OSError of save_hash is caught neither here nor in main
SaveAndReturn ==
    /\ pc = "compare"
    /\ LET d == Decision(previous_hash, current_hash)
       IN  /\ d.save
           /\ \E fault \in SaveFaults(current_hash) :
                LET r == save_hash(file, current_hash, fault)
                IN  /\ file' = r.file
                    /\ writes' = IF fault.at \in {"ok", "write"}
                                 THEN writes + 1 ELSE writes
                    /\ saved' = [done |-> TRUE, old |-> file,
                                 new |-> current_hash, fault |-> fault.at,
                                 raised |-> r.raised]
                    /\ IF r.raised # NoError
                       THEN /\ Exit(1, r.raised)
                            /\ UNCHANGED <<result, lastGood>>
                       ELSE /\ result' = [has_changed |-> d.has_changed,
                                          message |-> d.message]
                            /\ lastGood' = current_hash
                            /\ pc' = "checked"
                            /\ UNCHANGED <<exitCode, raised>>
    /\ UNCHANGED <<run, page, environ, config, html, content, current_hash,
                   previous_hash, fetched, smtp, notified, fileAtStart,
                   studyVars, lastRun, loaded>>

\* main variants: a notification whatever check_for_changes returned, and a
\* failed notification that restores the hash file the invocation found
Notify_unconditional ==
    /\ pc = "checked"
    /\ notified' = notified + 1
    /\ \E outcome \in SmtpOutcomes :
         /\ smtp' = outcome
         /\ IF notify_change(outcome)
            THEN Exit(0, NoError)
            ELSE Exit(1, NoError)
    /\ UNCHANGED <<run, page, file, environ, config, html, content,
                   current_hash, previous_hash, result, fetched, writes,
                   fileAtStart, lastGood, saved, studyVars, lastRun, loaded>>

Notify_rollback ==
    /\ pc = "checked"
    /\ result.has_changed
    /\ notified' = notified + 1
    /\ \E outcome \in SmtpOutcomes :
         /\ smtp' = outcome
         /\ IF notify_change(outcome)
            THEN Exit(0, NoError) /\ UNCHANGED file
            ELSE Exit(1, NoError) /\ file' = fileAtStart
    /\ UNCHANGED <<run, page, environ, config, html, content,
                   current_hash, previous_hash, result, fetched, writes,
                   fileAtStart, lastGood, saved, studyVars, lastRun, loaded>>

\* main: if has_changed: notify_change(config, config.monitor_url)
Notify ==
    /\ pc = "checked"
    /\ result.has_changed
    /\ notified' = notified + 1
    /\ \E outcome \in SmtpOutcomes :
         /\ smtp' = outcome
         /\ IF notify_change(outcome)
            THEN Exit(0, NoError)
            ELSE Exit(1, NoError)
    /\ UNCHANGED <<run, page, file, environ, config, html, content,
                   current_hash, previous_hash, result, fetched, writes,
                   fileAtStart, lastGood, saved, studyVars, lastRun, loaded>>

\* main: else: log("No notification needed"); return 0
NoNotification ==
    /\ pc = "checked"
    /\ ~result.has_changed
    /\ Exit(0, NoError)
    /\ UNCHANGED <<run, page, file, environ, config, html, content,
                   current_hash, previous_hash, result, fetched, smtp,
                   notified, writes, fileAtStart, lastGood, saved, studyVars, lastRun,
                   loaded>>

Next ==
    \/ PageUpdate
    \/ Invoke
    \/ MainLoadConfig
    \/ FetchPage
    \/ ExtractAndHash
    \/ LoadPrevious
    \/ ReturnUnchanged
    \/ SaveAndReturn
    \/ Notify
    \/ NoNotification

Spec == Init /\ [][Next]_vars

(***************************************************************************)
(* Properties of the pipeline.                                             *)
(***************************************************************************)
\* the fingerprint of what this invocation fetched, computed from its html
FetchedFingerprint ==
    compute_hash(extract_content(html, config.check_selector).content)

\* check_for_changes returned a (has_changed, message) pair in this invocation
Returned == result # NoResult

\* C1: a run in which fetch and normalisation succeeded and
\* load_previous_hash returned None returns (False, first-run message), and
\* the hash file then holds the fingerprint of the content just fetched.
\* (A run whose save_hash raised returns nothing: that case is C8's.)
C1_FirstRunSavesBaseline ==
    /\ (Returned /\ previous_hash = None) =>
          /\ result = [has_changed |-> FALSE, message |-> FirstRun]
          /\ saved.done
          /\ file = current_hash
          /\ file = FetchedFingerprint
    /\ (saved.done /\ saved.fault = "ok" /\ previous_hash = None) => Returned
    /\ (Returned /\ result.message = FirstRun) => previous_hash = None

C1_Witness ==
    /\ pc = "checked"
    /\ previous_hash = None
    /\ fileAtStart = Absent
    /\ result.message = FirstRun
    /\ file = current_hash

\* C2: a run that loaded a baseline different from the new fingerprint
\* returns (True, changed message), and the hash file then holds the new
\* fingerprint in place of the old baseline.
C2_ChangeOverwritesBaseline ==
    /\ (Returned /\ previous_hash # None /\ previous_hash # current_hash) =>
          /\ result = [has_changed |-> TRUE, message |-> Changed]
          /\ saved.done
          /\ saved.old = fileAtStart
          /\ file = current_hash
          /\ file = FetchedFingerprint
          /\ file # previous_hash
    /\ (saved.done /\ saved.fault = "ok" /\ previous_hash # None) =>
          /\ Returned
          /\ result.has_changed
    /\ (Returned /\ result.has_changed) =>
          /\ previous_hash # None
          /\ previous_hash # current_hash

C2_Witness ==
    /\ pc = "checked"
    /\ result = [has_changed |-> TRUE, message |-> Changed]
    /\ Len(fileAtStart) = DigestLen
    /\ previous_hash = fileAtStart
    /\ file = current_hash
    /\ file # fileAtStart

\* C3: every run that loads a baseline equal to the new fingerprint returns
\* (False, unchanged message) and leaves the hash file as it found it, without
\* a write, however many such runs follow one another.
C3_UnchangedWritesNothing ==
    /\ (pc \in {"checked", "exited"} /\ previous_hash # None
        /\ previous_hash = current_hash) =>
          /\ result = [has_changed |-> FALSE, message |-> Unchanged]
          /\ writes = 0
          /\ ~saved.done
          /\ file = fileAtStart
          /\ file = current_hash
    /\ (Returned /\ result.message = Unchanged) =>
          /\ previous_hash = current_hash
          /\ writes = 0

C3_Witness ==
    /\ pc = "exited"
    /\ run = MaxRuns
    /\ result.message = Unchanged
    /\ lastGood = fileAtStart
    /\ file = fileAtStart
    /\ exitCode = 0

\* C4: between invocations the hash file is absent (no evaluation has
\* returned yet) or holds the fingerprint computed by the latest evaluation
\* that returned.
C4_BaselineIsLatestFingerprint ==
    pc \in {"idle", "exited"} =>
        \/ file = Absent /\ lastGood = None
        \/ file # Absent /\ file = lastGood

\* the environment passes load_config and validate_config
ValidEnviron(env) ==
    /\ \A v \in RequiredVars : env[v] # Unset /\ env[v] # <<>>
    /\ \/ StartsWith(env["MONITOR_URL"], HttpPrefix)
       \/ StartsWith(env["MONITOR_URL"], HttpsPrefix)
    /\ \E i \in DOMAIN env["EMAIL_FROM"] : env["EMAIL_FROM"][i] = "@"
    /\ \E i \in DOMAIN env["EMAIL_TO"] : env["EMAIL_TO"][i] = "@"
    /\ \/ env["EMAIL_SMTP_PORT"] = Unset
       \/ /\ ParseInt(env["EMAIL_SMTP_PORT"]).ok
          /\ ParseInt(env["EMAIL_SMTP_PORT"]).value \in 1..65535

\* the selector names an id that no element of the fetched document carries
SelectorMisses ==
    /\ config.check_selector # None
    /\ \A i \in DOMAIN Elements(html) :
          <<"#">> \o Elements(html)[i].id # config.check_selector

\* C5: a failed fetch or a selector that matches nothing ends the invocation
\* with a MonitorError before the baseline is loaded or saved: the hash file
\* is untouched, nothing more is attempted, no notification is sent, and the
\* exit code is 1.
C5_PipelineFailureIsTerminal ==
    /\ (\/ fetched \notin {"none", "ok"}
        \/ fetched = "ok" /\ pc # "extract" /\ SelectorMisses) =>
          /\ pc = "exited"
          /\ raised = "MonitorError"
          /\ exitCode = 1
          /\ ~Returned
          /\ previous_hash = None
          /\ ~saved.done
          /\ writes = 0
          /\ file = fileAtStart
          /\ notified = 0
    /\ raised = "MonitorError" =>
          /\ pc = "exited"
          /\ exitCode = 1
          /\ file = fileAtStart
          /\ notified = 0

C5_WitnessFetch ==
    /\ pc = "exited"
    /\ fetched = "Timeout"
    /\ raised = "MonitorError"
    /\ fileAtStart # Absent
    /\ file = fileAtStart

C5_WitnessSelector ==
    /\ pc = "exited"
    /\ fetched = "ok"
    /\ SelectorMisses
    /\ fileAtStart # Absent

\* C6: an invocation ends with exit code 0 exactly when the configuration is
\* valid, check_for_changes returned, and the notification succeeded or was
\* not needed; a configuration error, a monitor error and a failed
\* notification each end it with exit code 1.
C6_ExitCode ==
    pc = "exited" =>
        /\ exitCode \in {0, 1}
        /\ exitCode = 0 <=>
              /\ ValidEnviron(environ)
              /\ Returned
              /\ result.has_changed => smtp = "ok"
              /\ ~result.has_changed => smtp = "none"
        /\ ~ValidEnviron(environ) => exitCode = 1 /\ raised = "ConfigError"
        /\ raised \in {"ConfigError", "MonitorError"} => exitCode = 1
        /\ smtp \notin {"none", "ok"} => exitCode = 1

C6_Witness ==
    /\ pc = "exited"
    /\ exitCode = 0
    /\ result.has_changed
    /\ smtp = "ok"

\* C7: whatever happens inside save_hash, the next load_previous_hash
\* returns the complete old value or the complete new one.
C7_SaveIsAtomic ==
    saved.done =>
        load_previous_hash(file, "ok")
            \in {load_previous_hash(saved.old, "ok"), saved.new}

\* C8: a save_hash that fails raises out of check_for_changes: no
\* (has_changed, message) is returned, the evaluation does not count as
\* successful, and the invocation does not end with exit code 0.
C8_SaveFailurePropagates ==
    (saved.done /\ saved.fault # "ok") =>
        /\ pc = "exited"
        /\ raised = "OSError"
        /\ saved.raised = "OSError"
        /\ ~Returned
        /\ exitCode = 1
        /\ smtp = "none"
        /\ notified = 0

C8_Witness ==
    /\ saved.done
    /\ saved.fault = "write"
    /\ previous_hash # None
    /\ raised = "OSError"

\* C11: over any sequence of invocations, main calls notify_change exactly
\* once in every invocation whose check_for_changes returned has_changed =
\* True, and never in an invocation that returned the first-run or the
\* unchanged result or that ended with a ConfigError or a MonitorError.
C11_NotifiedExactlyWhenChanged ==
    /\ notified \in {0, 1}
    /\ pc = "exited" =>
          ((notified = 1) <=> (Returned /\ result.has_changed))
    /\ pc # "exited" => notified = 0
    /\ notified = 1 =>
          /\ result = [has_changed |-> TRUE, message |-> Changed]
          /\ smtp \in SmtpOutcomes
    /\ (Returned /\ result.message \in {FirstRun, Unchanged}) =>
          /\ notified = 0
          /\ smtp = "none"
    /\ raised \in {"ConfigError", "MonitorError"} =>
          /\ notified = 0
          /\ smtp = "none"

\* two invocations in a row detected a change and each notified once
C11_Witness ==
    /\ pc = "exited"
    /\ run = MaxRuns
    /\ result.has_changed
    /\ notified = 1
    /\ lastRun.result.has_changed
    /\ lastRun.smtp # "none"

\* C12: when notify_change is called, save_hash has completed and the hash
\* file holds the new fingerprint; the outcome of the notification leaves it
\* there, so after a failed notification (exit code 1) the next invocation
\* starts from the new fingerprint, and one that obtains the same content
\* attempts no notification and, reading that baseline, returns the unchanged
\* result without a write.
C12_BaselineCommittedBeforeNotification ==
    /\ notified > 0 =>
          /\ saved.done
          /\ saved.fault = "ok"
          /\ saved.raised = NoError
          /\ saved.new = current_hash
          /\ file = current_hash
          /\ file # previous_hash
    /\ (lastRun.result.has_changed /\ lastRun.exitCode = 1) =>
          /\ lastRun.smtp \in SmtpOutcomes \ {"ok"}
          /\ lastRun.file = lastRun.current_hash
          /\ fileAtStart = lastRun.current_hash
          /\ (content # None /\ content = lastRun.content) =>
                /\ current_hash = fileAtStart
                /\ notified = 0
                /\ smtp = "none"
                /\ (pc \in {"checked", "exited"} /\ previous_hash # None) =>
                      /\ result = [has_changed |-> FALSE,
                                   message |-> Unchanged]
                      /\ ~saved.done
                      /\ file = lastRun.current_hash

\* the invocation after a failed notification saw the same content
C12_Witness ==
    /\ pc = "exited"
    /\ lastRun.result.has_changed
    /\ lastRun.exitCode = 1
    /\ lastRun.smtp = "SMTPException"
    /\ content = lastRun.content
    /\ result.message = Unchanged
    /\ notified = 0
    /\ exitCode = 0

(***************************************************************************)
(* The Baseline Store on its own: save_hash and load_previous_hash called  *)
(* in any order on a hash file that may have been written by hand.         *)
(***************************************************************************)
Fingerprints ==
    {compute_hash(<<"a", "b">>), compute_hash(<<"a", " ", "c">>),
     compute_hash(<<>>)}

StoreFiles ==
    {Absent, <<>>, <<" ", "\n">>}
    \cup Fingerprints
    \cup {<<" ", " ">> \o h \o <<" ", " ", "\n">> : h \in Fingerprints}
    \cup {h \o <<"\n">> : h \in Fingerprints}
    \cup {<<"\t">> \o h : h \in Fingerprints}

InitStore ==
    /\ InitMain
    /\ InitStudy
    /\ file \in StoreFiles
    /\ saved = NoSave

StoreSave ==
    /\ \E v \in Fingerprints :
         \E fault \in SaveFaults(v) :
            LET r == save_hash(file, v, fault)
            IN  /\ file' = r.file
                /\ saved' = [done |-> TRUE, old |-> file, new |-> v,
                             fault |-> fault.at, raised |-> r.raised]
    /\ UNCHANGED <<mainVars, studyVars, loaded>>

StoreLoad ==
    /\ \E fault \in ReadFaults :
         loaded' = [done |-> TRUE, from |-> file, fault |-> fault,
                    value |-> load_previous_hash(file, fault),
                    after_save |-> IF saved.done /\ saved.fault = "ok"
                                   THEN saved.new ELSE None]
    /\ UNCHANGED <<mainVars, studyVars, file, saved>>

NextStore == StoreSave \/ StoreLoad

SpecStore == InitStore /\ [][NextStore]_vars

AllWhitespace(s) == \A i \in DOMAIN s : s[i] \in Whitespace

\* v is payload without the whitespace around it
Trimmed(payload, v) ==
    /\ v = <<>> \/ (v[1] \notin Whitespace /\ v[Len(v)] \notin Whitespace)
    /\ \E i \in 0..Len(payload) :
          /\ i + Len(v) <= Len(payload)
          /\ SubSeq(payload, i + 1, i + Len(v)) = v
          /\ AllWhitespace(SubSeq(payload, 1, i))
          /\ AllWhitespace(SubSeq(payload, i + Len(v) + 1, Len(payload)))

\* C9: load_previous_hash returns None exactly when the file is missing or
\* the read fails, and otherwise the file's payload without the whitespace
\* around it; a load that follows a completed save_hash(v) returns v.
C9_LoadContract ==
    loaded.done =>
        /\ loaded.value = None <=>
              (loaded.from = Absent \/ loaded.fault = "OSError")
        /\ loaded.value # None => Trimmed(loaded.from, loaded.value)
        /\ (loaded.fault = "ok" /\ loaded.after_save # None) =>
              loaded.value = loaded.after_save

C9_Witness ==
    /\ loaded.done
    /\ loaded.fault = "ok"
    /\ loaded.after_save # None
    /\ loaded.value = loaded.after_save
    /\ saved.old # Absent
    /\ Len(saved.old) > DigestLen

C9_WitnessWhitespace ==
    /\ loaded.done
    /\ Len(loaded.from) > DigestLen
    /\ Len(loaded.value) = DigestLen

(***************************************************************************)
(* The Normalizer on its own: a document, and a variant of it that the     *)
(* site could serve with the same substantive content: the same markup     *)
(* with noise elements added anywhere (also inside a text) and with its    *)
(* whitespace laid out differently.  The variant is kept as the parser     *)
(* would build it from that markup.                                        *)
(***************************************************************************)
NoiseElements ==
    {Script(<<"x">>),
     Tag("style", <<>>, <<>>, {}, <<Text(<<"y">>)>>),
     Tag("span", <<>>, <<"A", "d">>, {}, <<Text(<<"x">>)>>),
     Tag("span", <<>>, <<>>, {"data-nonce"}, <<Text(<<"y">>)>>),
     Tag("div", <<>>, <<>>, {"data-timestamp"}, <<>>)}

BaseDocs ==
    {<<Tag("div", <<"c">>, <<>>, {}, <<Text(<<"a", "b">>)>>)>>,
     <<Text(<<"a", " ", "b">>),
       Tag("p", <<>>, <<>>, {}, <<Text(<<"b", "\n", "a">>)>>)>>,
     <<Tag("p", <<>>, <<>>, {}, <<Text(<<"a">>)>>),
       Tag("div", <<"c">>, <<>>, {}, <<Text(<<"b">>)>>)>>}

Selectors == {None, <<"#", "c">>}

\* nodes with x put between its k-th and (k+1)-th node
InsertAt(nodes, k, x) ==
    SubSeq(nodes, 1, k) \o <<x>> \o SubSeq(nodes, k + 1, Len(nodes))

\* nodes with x put inside its i-th node, a text, after o characters
SplitText(nodes, i, o, x) ==
    SubSeq(nodes, 1, i - 1)
    \o <<Text(SubSeq(nodes[i].text, 1, o)), x,
         Text(SubSeq(nodes[i].text, o + 1, Len(nodes[i].text)))>>
    \o SubSeq(nodes, i + 1, Len(nodes))

\* the places of `nodes` where a tag can be put: [node |-> 0, offset |-> k]
\* after the k-th node, [node |-> i, offset |-> o] inside the i-th node, a
\* text, after o characters
Places(nodes) ==
    {[node |-> 0, offset |-> k] : k \in 0..Len(nodes)}
    \cup UNION {{[node |-> i, offset |-> o] :
                    o \in 1..(Len(nodes[i].text) - 1)} :
                 i \in {j \in DOMAIN nodes : nodes[j].kind = "text"}}

PutAt(nodes, pl, x) ==
    IF pl.node = 0 THEN InsertAt(nodes, pl.offset, x)
    ELSE SplitText(nodes, pl.node, pl.offset, x)

\* the texts of `nodes` with one whitespace character replaced or doubled
Relaid(t) ==
    {[t EXCEPT ![o] = w] : o \in {j \in DOMAIN t : t[j] \in Whitespace},
                            w \in Whitespace}
    \cup {SubSeq(t, 1, o) \o SubSeq(t, o, Len(t)) :
            o \in {j \in DOMAIN t : t[j] \in Whitespace}}

InitNormalizer ==
    /\ InitMain
    /\ file = Absent
    /\ saved = NoSave
    /\ loaded = NoLoad
    /\ docA \in BaseDocs
    /\ docB = docA
    /\ contentA = NoContent
    /\ contentB = NoContent
    /\ edits = 0

Edit(doc) ==
    /\ contentA = NoContent
    /\ edits < MaxEdits
    /\ edits' = edits + 1
    /\ docB' = doc
    /\ UNCHANGED <<mainVars, file, saved, loaded, docA, contentA, contentB>>

\* a noise element appears among the top-level nodes, or inside a top-level text
AddNoiseTop ==
    \E x \in NoiseElements :
       \E pl \in Places(docB) : Edit(PutAt(docB, pl, x))

\* a noise element appears among the children of an element, or inside a
\* text of that element
AddNoiseInside ==
    \E x \in NoiseElements :
       \E i \in DOMAIN docB :
          /\ docB[i].kind = "tag"
          /\ docB[i] \notin NoiseElements
          /\ \E pl \in Places(docB[i].kids) :
                Edit([docB EXCEPT ![i].kids = PutAt(@, pl, x)])

\* the whitespace inside a text is laid out differently
RelayoutText ==
    \/ \E i \in DOMAIN docB :
          /\ docB[i].kind = "text"
          /\ \E t \in Relaid(docB[i].text) \ {docB[i].text} :
                Edit([docB EXCEPT ![i].text = t])
    \/ \E i \in DOMAIN docB :
          /\ docB[i].kind = "tag"
          /\ docB[i] \notin NoiseElements
          /\ \E j \in DOMAIN docB[i].kids :
                /\ docB[i].kids[j].kind = "text"
                /\ \E t \in Relaid(docB[i].kids[j].text)
                              \ {docB[i].kids[j].text} :
                      Edit([docB EXCEPT ![i].kids[j].text = t])

\* a line break is put between two tags that follow one another
IndentTags ==
    \E k \in 1..(Len(docB) - 1) :
       /\ docB[k].kind = "tag"
       /\ docB[k + 1].kind = "tag"
       /\ Edit(InsertAt(docB, k, Text(<<"\n", " ">>)))

\* both documents go through extract_content with the same selector
Normalize ==
    /\ contentA = NoContent
    /\ \E selector \in Selectors :
          /\ contentA' = extract_content(docA, selector)
          /\ contentB' = extract_content(docB, selector)
    /\ UNCHANGED <<mainVars, file, saved, loaded, docA, docB, edits>>

NextNormalizer ==
    \/ AddNoiseTop
    \/ AddNoiseInside
    \/ RelayoutText
    \/ IndentTags
    \/ Normalize

SpecNormalizer == InitNormalizer /\ [][NextNormalizer]_vars

\* C10: two documents with the same substantive content that differ only in
\* noise elements and whitespace layout have the same CanonicalContent, hence
\* the same fingerprint, and the second is found unchanged against the first.
C10_NoiseInvariance ==
    contentA # NoContent =>
        /\ contentA = contentB
        /\ compute_hash(contentA.content) = compute_hash(contentB.content)
        /\ Decision(compute_hash(contentA.content),
                    compute_hash(contentB.content)).message = Unchanged

====
